---- MODULE Spec2Model ----
(***************************************************************************)
(* Model of server.js: the POST /api/contact endpoint (upload stage,       *)
(* request handler, store insert, mail send), the multi-value field        *)
(* normalisation and the storage-name generation of uploaded files.        *)
(***************************************************************************)
EXTENDS Integers, Sequences, FiniteSets, TLC

VARIABLES env, rq, store, outbox, disk, nz, now, uploads, fileLog

vars == <<env, rq, store, outbox, disk, nz, now, uploads, fileLog>>

(***************************************************************************)
(* Bounds of the model.                                                    *)
(***************************************************************************)
\* number of requests handled concurrently
NumReq == 2
\* longest list value of a multi-value form field
MaxLen == 2
\* last clock value (milliseconds after start) the clock reaches
MaxClock == 1
\* number of files stored through the storage engine
MaxStored == 2
\* longest original file name, in characters
MaxNameLen == 2

(***************************************************************************)
(* Program constants.                                                      *)
(***************************************************************************)
\* upload.array("attachments", 5)
maxCount == 5
\* limits: { fileSize: 10 * 1024 * 1024 }
fileSize == 10 * 1024 * 1024

Reqs == 1..NumReq

(***************************************************************************)
(* JavaScript values of a form body: undefined, a string, an array of      *)
(* strings.                                                                *)
(***************************************************************************)
Undefined == [t |-> "undefined", s |-> "", a |-> <<>>]
Str(x) == [t |-> "string", s |-> x, a |-> <<>>]
Arr(l) == [t |-> "array", s |-> "", a |-> l]

\* JavaScript truthiness of such a value: undefined and "" are falsy,
\* every array (the empty one included) and every other string is truthy.
Truthy(v) == (v.t = "array") \/ (v.t = "string" /\ v.s # "")

\* a || b
Or(a, b) == IF Truthy(a) THEN a ELSE b

(***************************************************************************)
(* Environment: which variables of process.env are set (non-empty).        *)
(***************************************************************************)
MailVars == {"SMTP_HOST", "SMTP_USER", "SMTP_PASS", "TO_EMAIL", "FROM_EMAIL"}
OptMailVars == {"SMTP_PORT", "SMTP_SECURE"}
EnvNames == {"MONGODB_URI"} \cup MailVars \cup OptMailVars

\* The configurations explored: every mail variable set, exactly one of the
\* seven unset, or none set; each with and without MONGODB_URI.
Envs ==
  {e \in [EnvNames -> BOOLEAN] :
     LET unset == {n \in MailVars \cup OptMailVars : ~e[n]}
     IN Cardinality(unset) \in {0, 1, 7}}

\* const mongoUri = process.env.MONGODB_URI;  if (mongoUri) { ... }
mongoUri(e) == e["MONGODB_URI"]

\* !(!smtpHost || !smtpUser || !smtpPass || !mailTo || !mailFrom)
MailReadyNoFrom(e) ==
  e["SMTP_HOST"] /\ e["SMTP_USER"] /\ e["SMTP_PASS"] /\ e["TO_EMAIL"]
MailReady(e) ==
  e["SMTP_HOST"] /\ e["SMTP_USER"] /\ e["SMTP_PASS"] /\ e["TO_EMAIL"]
    /\ e["FROM_EMAIL"]

\* parseInt(process.env.SMTP_PORT || "587", 10)
smtpPort(e) == IF e["SMTP_PORT"] THEN "SMTP_PORT" ELSE "587"
\* process.env.SMTP_SECURE === "true"
smtpSecure(e) == e["SMTP_SECURE"]

(***************************************************************************)
(* Requests.                                                               *)
(***************************************************************************)
Required == {"full_name", "email", "phone"}

GivenBody == [f \in Required |-> Str("Jane")]
EmptyBody == [f \in Required |-> Undefined]

\* Form bodies explored for requests whose upload succeeds: all three
\* required fields given, each of them absent in turn, and an empty e-mail.
Bodies ==
  {GivenBody} \cup {[GivenBody EXCEPT ![f] = Undefined] : f \in Required}
    \cup {[GivenBody EXCEPT !["email"] = Str("")]}

\* Form bodies explored for requests whose upload fails: every required field
\* given, or none.
ErrBodies == {GivenBody, EmptyBody}

\* File counts explored for one request.
FileCounts == {0, maxCount, maxCount + 1}
\* Size in bytes of the largest file of a request.
FileSizes == {1024, fileSize, fileSize + 1}

\* if (!full_name || !email || !phone) -> 400
ValidNoPhone(b) == Truthy(b["full_name"]) /\ Truthy(b["email"])
Valid(b) == Truthy(b["full_name"]) /\ Truthy(b["email"]) /\ Truthy(b["phone"])

Idle ==
  [pc |-> "idle", multipart |-> FALSE, body |-> EmptyBody,
   nfiles |-> 0, uploadErr |-> "none", status |-> 0, text |-> "",
   creates |-> 0, created |-> "none", sends |-> 0, sent |-> "none"]


(***************************************************************************)
(* Responses.                                                              *)
(***************************************************************************)
\* res.status(200).send("OK")
OkResponseCreated == [status |-> 201, text |-> "OK"]
OkResponse == [status |-> 200, text |-> "OK"]
\* res.status(400).send("Missing required fields")
BadRequest == [status |-> 400, text |-> "Missing required fields"]
\* catch (error) { return res.status(500).send("Server error"); }
CatchResponse == [status |-> 500, text |-> "Server error"]
\* The upload middleware runs outside the handler's try block: its error goes
\* to next(err) and the framework's default error handler answers, with
\* status 500 and its own error page as the body.
DefaultErrorResponse == [status |-> 500, text |-> "default error page"]

Respond(q, resp) ==
  [q EXCEPT !.pc = "done", !.status = resp.status, !.text = resp.text]

(***************************************************************************)
(* Upload stage: upload.array("attachments", 5) with the fileSize limit.   *)
(***************************************************************************)
\* The upload stage accepts n files whose largest has sz bytes.
UploadAccepts(n, sz, writeOk) ==
  /\ n <= maxCount
  /\ (n > 0 => sz <= fileSize /\ writeOk)

\* The error the upload stage ends with when it does not accept the files.
UploadFailure(n, sz, writeOk) ==
  IF n > maxCount THEN "LIMIT_UNEXPECTED_FILE"
  ELSE IF sz > fileSize THEN "LIMIT_FILE_SIZE"
  ELSE "WRITE_FAILED"

UploadFailures ==
  {UploadFailure(n, sz, w) : <<n, sz, w>> \in
     {x \in FileCounts \X FileSizes \X BOOLEAN : ~UploadAccepts(x[1], x[2], x[3])}}

\* All files accepted and written: req.body and req.files are filled in and
\* the handler is called later.
UploadOk(r) ==
  /\ rq[r].pc = "idle"
  /\ \E b \in Bodies, n \in FileCounts :
       /\ \E sz \in FileSizes, w \in BOOLEAN : UploadAccepts(n, sz, w)
       /\ rq' = [rq EXCEPT ![r] = [@ EXCEPT !.pc = "handler",
                                            !.multipart = TRUE,
                                            !.body = b, !.nfiles = n]]
       /\ disk' = [disk EXCEPT ![r] = n]
  /\ UNCHANGED <<env, store, outbox, nz, now, uploads, fileLog>>

\* Too many files, a file over the size limit or a failed write: the
\* middleware removes what it stored for the request and calls next(err).
UploadError(r) ==
  /\ rq[r].pc = "idle"
  /\ \E b \in ErrBodies, k \in UploadFailures :
       rq' = [rq EXCEPT ![r] =
                Respond([@ EXCEPT !.multipart = TRUE, !.body = b,
                                  !.uploadErr = k],
                        DefaultErrorResponse)]
  /\ UNCHANGED <<env, store, outbox, disk, nz, now, uploads, fileLog>>

(***************************************************************************)
(* The handler of POST /api/contact.                                       *)
(***************************************************************************)
\* The document passed to Submission.create.
Submission(r, q) ==
  [req |-> r,
   full_name |-> q.body["full_name"].s,
   email |-> q.body["email"].s,
   phone |-> q.body["phone"].s,
   attachments |-> [i \in 1..q.nfiles |-> i]]

\* The message passed to transporter.sendMail.
Mail(r, q, e) ==
  [req |-> r, replyTo |-> q.body["email"].s, port |-> smtpPort(e),
   secure |-> smtpSecure(e), attachments |-> [i \in 1..q.nfiles |-> i]]

\* Submission.create inserts a new document.
InsertUpsert(st, rec) ==
  IF \E i \in 1..Len(st) : st[i].email = rec.email
    THEN [i \in 1..Len(st) |-> IF st[i].email = rec.email THEN rec ELSE st[i]]
    ELSE Append(st, rec)
Insert(st, rec) == Append(st, rec)

\* if (mongoUri) { await Submission.create(...) }
PersistAlways(e) == TRUE
PersistEnabled(e) == mongoUri(e)

\* Lines 147-207: the mail step. Without the five settings answer 200,
\* otherwise call sendMail and wait for it.
MailStep(q, e) ==
  IF ~MailReady(e)
    THEN Respond(q, OkResponse)
    ELSE [q EXCEPT !.pc = "awaitSend", !.sends = @ + 1]

\* Lines 90-145, up to the first await: destructure, validate, persist.
HandlerStart(q, e) ==
  IF ~q.multipart
    THEN Respond(q, CatchResponse)
    ELSE IF ~Valid(q.body)
      THEN Respond(q, BadRequest)
      ELSE IF PersistEnabled(e)
        THEN [q EXCEPT !.pc = "awaitCreate", !.creates = @ + 1]
        ELSE MailStep(q, e)

Handler(r) ==
  /\ rq[r].pc = "handler"
  /\ rq' = [rq EXCEPT ![r] = HandlerStart(@, env)]
  /\ UNCHANGED <<env, store, outbox, disk, nz, now, uploads, fileLog>>

\* A request that is not multipart/form-data passes the upload middleware
\* untouched and at once: req.body stays undefined, the handler runs in the
\* same turn and the destructuring of req.body throws inside the try block.
NotMultipart(r) ==
  /\ rq[r].pc = "idle"
  /\ rq' = [rq EXCEPT ![r] = HandlerStart([@ EXCEPT !.multipart = FALSE], env)]
  /\ UNCHANGED <<env, store, outbox, disk, nz, now, uploads, fileLog>>

\* Submission.create resolved: the document is in the store, go on to mail.
CreateResolved(r) ==
  /\ rq[r].pc = "awaitCreate"
  /\ store' = Insert(store, Submission(r, rq[r]))
  /\ rq' = [rq EXCEPT ![r] = MailStep([@ EXCEPT !.created = "ok"], env)]
  /\ UNCHANGED <<env, outbox, disk, nz, now, uploads, fileLog>>

\* Submission.create rejected: control goes to the catch block.
OnCreateErrorSwallowed(q, e) == MailStep(q, e)
OnCreateError(q, e) == Respond(q, CatchResponse)

CreateRejected(r) ==
  /\ rq[r].pc = "awaitCreate"
  /\ rq' = [rq EXCEPT ![r] = OnCreateError([@ EXCEPT !.created = "failed"], env)]
  /\ UNCHANGED <<env, store, outbox, disk, nz, now, uploads, fileLog>>

\* sendMail resolved: the message left, answer 200.
SendResolved(r) ==
  /\ rq[r].pc = "awaitSend"
  /\ outbox' = Append(outbox, Mail(r, rq[r], env))
  /\ rq' = [rq EXCEPT ![r] = Respond([@ EXCEPT !.sent = "ok"], OkResponse)]
  /\ UNCHANGED <<env, store, disk, nz, now, uploads, fileLog>>

\* The catch block leaves the store as it is.
StoreRolledBack(st, r) == SelectSeq(st, LAMBDA d : d.req # r)
StoreAfterCatch(st, r) == st

\* sendMail rejected: control goes to the catch block.
SendRejected(r) ==
  /\ rq[r].pc = "awaitSend"
  /\ rq' = [rq EXCEPT ![r] = Respond([@ EXCEPT !.sent = "failed"], CatchResponse)]
  /\ store' = StoreAfterCatch(store, r)
  /\ UNCHANGED <<env, outbox, disk, nz, now, uploads, fileLog>>

Init ==
  /\ env \in Envs
  /\ rq = [r \in Reqs |-> Idle]
  /\ store = <<>>
  /\ outbox = <<>>
  /\ disk = [r \in Reqs |-> 0]
  /\ nz = [field |-> "", bracketed |-> Undefined, unbracketed |-> Undefined,
           done |-> FALSE, result |-> <<>>]
  /\ now = 0
  /\ uploads = <<>>
  /\ fileLog = <<>>

Next ==
  \E r \in Reqs :
    \/ UploadOk(r)
    \/ UploadError(r)
    \/ NotMultipart(r)
    \/ Handler(r)
    \/ CreateResolved(r)
    \/ CreateRejected(r)
    \/ SendResolved(r)
    \/ SendRejected(r)

Spec == Init /\ [][Next]_vars


(***************************************************************************)
(* Multi-value field normalisation (normalizeArray and its three uses).    *)
(***************************************************************************)
MultiFields == {"platform_required", "mvp_purpose", "discussion_mode"}
Strings == {"", "a", "b"}

RECURSIVE SeqsUpTo(_, _)
SeqsUpTo(S, n) ==
  IF n = 0 THEN {<<>>}
  ELSE LET shorter == SeqsUpTo(S, n - 1)
       IN shorter \cup {Append(l, x) : l \in shorter, x \in S}

\* Values a form key can hold: absent, a string, a list of strings.
FormVals ==
  {Undefined} \cup {Str(x) : x \in Strings}
    \cup {Arr(l) : l \in SeqsUpTo(Strings, MaxLen)}

\* function normalizeArray(value)
normalizeArrayNoWrap(value) ==
  IF ~Truthy(value) THEN <<>> ELSE value.a
normalizeArray(value) ==
  IF ~Truthy(value) THEN <<>>
  ELSE IF value.t = "array" THEN value.a
  ELSE <<value.s>>

\* normalizeArray(req.body["name[]"] || req.body.name)
MultiValue(bracketed, unbracketed) == normalizeArray(Or(bracketed, unbracketed))

InitNorm ==
  /\ nz \in [field : MultiFields, bracketed : FormVals, unbracketed : FormVals,
             done : {FALSE}, result : {<<>>}]
  /\ env = [n \in EnvNames |-> FALSE]
  /\ rq = [r \in Reqs |-> Idle]
  /\ store = <<>>
  /\ outbox = <<>>
  /\ disk = [r \in Reqs |-> 0]
  /\ now = 0
  /\ uploads = <<>>
  /\ fileLog = <<>>

Normalize ==
  /\ ~nz.done
  /\ nz' = [nz EXCEPT !.done = TRUE,
                      !.result = MultiValue(nz.bracketed, nz.unbracketed)]
  /\ UNCHANGED <<env, rq, store, outbox, disk, now, uploads, fileLog>>

NextNorm == Normalize

SpecNorm == InitNorm /\ [][NextNorm]_vars

(***************************************************************************)
(* Storage names of uploaded files (multer.diskStorage filename).          *)
(***************************************************************************)
Lower == {"a", "b", "c", "d", "e", "f", "g", "h", "i", "j", "k", "l", "m",
          "n", "o", "p", "q", "r", "s", "t", "u", "v", "w", "x", "y", "z"}
Upper == {"A", "B", "C", "D", "E", "F", "G", "H", "I", "J", "K", "L", "M",
          "N", "O", "P", "Q", "R", "S", "T", "U", "V", "W", "X", "Y", "Z"}
Digits == <<"0", "1", "2", "3", "4", "5", "6", "7", "8", "9">>
\* the characters the pattern [^a-zA-Z0-9._-] leaves alone
SafeChars ==
  Lower \cup Upper \cup {Digits[i] : i \in 1..10} \cup {".", "_", "-"}

\* Characters of the original names explored: names are character sequences.
NameChars == {"a", " ", "_"}
OrigNames == SeqsUpTo(NameChars, MaxNameLen) \ {<<>>}

\* file.originalname.replace(/[^a-zA-Z0-9._-]/g, "_")
safeName(name) ==
  [i \in 1..Len(name) |-> IF name[i] \in SafeChars THEN name[i] ELSE "_"]

\* decimal digits of a number, as the template literal prints it
RECURSIVE ToDigits(_)
ToDigits(n) ==
  IF n < 10 THEN <<Digits[n + 1]>>
  ELSE Append(ToDigits(n \div 10), Digits[(n % 10) + 1])

\* `${Date.now()}-${safeName}`
filename(t, name) == ToDigits(t) \o <<"-">> \o safeName(name)

InitFiles ==
  /\ now = 0
  /\ uploads = <<>>
  /\ fileLog = <<>>
  /\ env = [n \in EnvNames |-> FALSE]
  /\ rq = [r \in Reqs |-> Idle]
  /\ store = <<>>
  /\ outbox = <<>>
  /\ disk = [r \in Reqs |-> 0]
  /\ nz = [field |-> "", bracketed |-> Undefined, unbracketed |-> Undefined,
           done |-> FALSE, result |-> <<>>]

\* The clock moves on by a millisecond.
Tick ==
  /\ now < MaxClock
  /\ now' = now + 1
  /\ UNCHANGED <<env, rq, store, outbox, disk, nz, uploads, fileLog>>

\* The storage engine stores one file of request r: it asks the filename
\* callback for the name and writes the file under it in the uploads
\* directory, replacing whatever is there under that name.
StoreFile(r) ==
  /\ Len(fileLog) < MaxStored
  /\ \E name \in OrigNames :
       LET fn == filename(now, name)
           entry == [req |-> r, originalname |-> name, filename |-> fn]
       IN /\ fileLog' = Append(fileLog, entry)
          /\ uploads' = (fn :> (Len(fileLog) + 1)) @@ uploads
  /\ UNCHANGED <<env, rq, store, outbox, disk, nz, now>>

NextFiles == Tick \/ \E r \in Reqs : StoreFile(r)

SpecFiles == InitFiles /\ [][NextFiles]_vars


(***************************************************************************)
(* Vocabulary of the properties.                                           *)
(***************************************************************************)
Done(r) == rq[r].pc = "done"
\* at least one of full_name, email, phone is absent or empty
MissingField(b) ==
  \E f \in Required : b[f].t = "undefined" \/ (b[f].t = "string" /\ b[f].s = "")
\* full_name, email and phone are non-empty strings
AllGiven(b) == \A f \in Required : b[f].t = "string" /\ b[f].s # ""
\* the request is multipart and its upload stage succeeded
Uploaded(r) == rq[r].multipart /\ rq[r].uploadErr = "none" /\ rq[r].pc # "idle"
Stored(r) == \E i \in 1..Len(store) : store[i].req = r
Mailed(r) == \E i \in 1..Len(outbox) : outbox[i].req = r
NoEffects(r) ==
  rq[r].creates = 0 /\ rq[r].sends = 0 /\ ~Stored(r) /\ ~Mailed(r)
Is(r, resp) == rq[r].status = resp.status /\ rq[r].text = resp.text
SomeMailSettingMissing == \E n \in MailVars \cup OptMailVars : ~env[n]

\* C1 (as stated): every finished request with a required field absent or
\* empty was answered 400 "Missing required fields", and nothing was inserted
\* or mailed for it.
C1_Original ==
  \A r \in Reqs :
    Done(r) /\ MissingField(rq[r].body) =>
      /\ Is(r, [status |-> 400, text |-> "Missing required fields"])
      /\ NoEffects(r)

\* C1 (amended): every finished multipart request whose upload stage succeeded
\* and that has a required field absent or empty was answered 400 "Missing
\* required fields"; and for every request with such a field, whatever its
\* upload outcome, nothing is inserted and nothing is mailed.
C1_Amended ==
  \A r \in Reqs :
    MissingField(rq[r].body) =>
      /\ NoEffects(r)
      /\ Done(r) /\ Uploaded(r) =>
           Is(r, [status |-> 400, text |-> "Missing required fields"])

C1_Witness ==
  \E r \in Reqs :
    /\ Done(r) /\ Uploaded(r) /\ rq[r].nfiles > 0
    /\ rq[r].body["email"] = Str("") /\ rq[r].body["phone"] = Str("Jane")
    /\ mongoUri(env) /\ MailReady(env)
    /\ rq[r].status = 400

\* C2: every finished request with the required fields given that failed in
\* the upload stage, in the store insert or in the mail send was answered
\* 500 "Server error".
C2_Original ==
  \A r \in Reqs :
    Done(r) /\ AllGiven(rq[r].body)
      /\ (rq[r].uploadErr # "none" \/ rq[r].created = "failed"
            \/ rq[r].sent = "failed") =>
        Is(r, [status |-> 500, text |-> "Server error"])

\* C3: every finished request with the three required fields non-empty whose
\* upload stage succeeded and whose insert and send did not fail was answered
\* 200 "OK", under every configuration.
C3_Success ==
  \A r \in Reqs :
    Done(r) /\ Uploaded(r) /\ AllGiven(rq[r].body)
      /\ rq[r].created # "failed" /\ rq[r].sent # "failed" =>
        Is(r, [status |-> 200, text |-> "OK"])

C3_Witness ==
  \E r \in Reqs :
    /\ Done(r) /\ Uploaded(r) /\ AllGiven(rq[r].body)
    /\ mongoUri(env) /\ MailReady(env)
    /\ rq[r].created = "ok" /\ rq[r].sent = "ok" /\ rq[r].status = 200

\* C5 (as stated): when any of the seven mail settings (host, port, secure
\* flag, username, password, from, to) is missing, a valid request whose
\* insert did not fail gets no email sent and is answered 200 "OK".
C5_Original ==
  \A r \in Reqs :
    SomeMailSettingMissing /\ Uploaded(r) /\ AllGiven(rq[r].body)
      /\ rq[r].created # "failed" =>
        /\ rq[r].sends = 0 /\ ~Mailed(r)
        /\ Done(r) => Is(r, [status |-> 200, text |-> "OK"])

\* C5 (amended): when any of host, username, password, from-address,
\* to-address is missing, no email is sent for any request, and a valid
\* request whose insert did not fail is answered 200 "OK", its record being in
\* the store when the store is configured. With those five set, a missing
\* port or secure flag does not skip the send: such a request gets its one
\* send, on port 587 and without the secure flag respectively.
C5_Amended ==
  /\ \A r \in Reqs :
       (\E n \in MailVars : ~env[n]) =>
         /\ rq[r].sends = 0 /\ ~Mailed(r)
         /\ Done(r) /\ Uploaded(r) /\ AllGiven(rq[r].body)
              /\ rq[r].created # "failed" =>
                /\ Is(r, [status |-> 200, text |-> "OK"])
                /\ env["MONGODB_URI"] => Stored(r)
  /\ \A r \in Reqs :
       (\A n \in MailVars : env[n]) /\ Done(r) /\ Uploaded(r)
         /\ AllGiven(rq[r].body) /\ rq[r].created # "failed" => rq[r].sends = 1
  /\ \A i \in 1..Len(outbox) :
       /\ ~env["SMTP_PORT"] => outbox[i].port = "587"
       /\ ~env["SMTP_SECURE"] => outbox[i].secure = FALSE

C5_Witness ==
  \E r \in Reqs :
    /\ ~env["FROM_EMAIL"] /\ \A n \in EnvNames \ {"FROM_EMAIL"} : env[n]
    /\ Done(r) /\ Uploaded(r) /\ AllGiven(rq[r].body)
    /\ Stored(r) /\ rq[r].status = 200 /\ rq[r].sends = 0

\* C6: without MONGODB_URI nothing is ever inserted; a valid request goes on
\* to the mail step (one send when mail is configured, none otherwise) and is
\* answered 200 "OK" unless that send fails: the only 500 such a request can
\* get comes from a failed send, never from the missing store configuration.
C6_Unconfigured ==
  ~env["MONGODB_URI"] =>
    /\ store = <<>>
    /\ \A r \in Reqs :
         /\ rq[r].creates = 0 /\ rq[r].created = "none"
         /\ Done(r) /\ Uploaded(r) /\ AllGiven(rq[r].body) =>
              /\ rq[r].sends = (IF \A n \in MailVars : env[n] THEN 1 ELSE 0)
              /\ rq[r].sent # "failed" => Is(r, [status |-> 200, text |-> "OK"])
              /\ rq[r].status = 500 => rq[r].sent = "failed"

C6_Witness ==
  \E r \in Reqs :
    /\ ~env["MONGODB_URI"] /\ \A n \in MailVars : env[n]
    /\ Done(r) /\ Uploaded(r) /\ AllGiven(rq[r].body)
    /\ Mailed(r) /\ rq[r].status = 200

\* every record of the store has non-empty full_name, email and phone and at
\* most 5 attachments
C7_StoreInv ==
  \A i \in 1..Len(store) :
    /\ store[i].full_name # "" /\ store[i].email # "" /\ store[i].phone # ""
    /\ Len(store[i].attachments) <= 5

\* C7: in every reachable state every record of the store has non-empty
\* full_name, email and phone and at most 5 attachments, and no step of any
\* request changes or removes a record that is in the store.
C7_Store ==
  /\ []C7_StoreInv
  /\ [][\A i \in 1..Len(store) : i <= Len(store') /\ store'[i] = store[i]]_vars

C7_Witness ==
  /\ Len(store) = 2
  /\ store[1].req # store[2].req
  /\ Len(store[1].attachments) = 5

\* C9: within a request the insert and the send are each attempted at most
\* once and only for a validated request; a send is attempted only after the
\* insert succeeded or was skipped as unconfigured; a failed insert leaves the
\* request without any send; the response comes last, and a 200 only after
\* every configured step succeeded.
C9_Order ==
  \A r \in Reqs :
    /\ rq[r].creates <= 1 /\ rq[r].sends <= 1
    /\ (rq[r].creates > 0 \/ rq[r].sends > 0) => AllGiven(rq[r].body)
    /\ rq[r].sends > 0 =>
         IF env["MONGODB_URI"] THEN rq[r].created = "ok" /\ Stored(r)
         ELSE rq[r].creates = 0
    /\ rq[r].created = "failed" => rq[r].sends = 0 /\ ~Mailed(r)
    /\ (rq[r].status # 0) <=> Done(r)
    /\ rq[r].pc \in {"idle", "handler"} => NoEffects(r)
    /\ rq[r].pc = "awaitCreate" => rq[r].creates = 1 /\ ~Stored(r) /\ rq[r].sends = 0
    /\ rq[r].pc = "awaitSend" => rq[r].sends = 1 /\ ~Mailed(r)
    /\ rq[r].status = 200 =>
         /\ env["MONGODB_URI"] => rq[r].created = "ok" /\ Stored(r)
         /\ (\A n \in MailVars : env[n]) => rq[r].sent = "ok" /\ Mailed(r)

C9_Witness ==
  \E r, p \in Reqs :
    /\ r # p
    /\ rq[r].status = 200 /\ rq[r].created = "ok" /\ rq[r].sent = "ok"
    /\ rq[p].status = 500 /\ rq[p].created = "failed" /\ rq[p].sends = 0

Present(v) == v.t # "undefined"

\* the normalisation as C4 states it: absent to the empty sequence, a scalar
\* (the empty string included) to a one-element sequence, a list to itself
StatedNormal(v) ==
  IF v.t = "undefined" THEN <<>>
  ELSE IF v.t = "string" THEN <<v.s>>
  ELSE v.a

\* the normalisation of the amended C4: the empty string counts as absent
AmendedNormal(v) ==
  IF v.t = "undefined" \/ v = Str("") THEN <<>>
  ELSE IF v.t = "string" THEN <<v.s>>
  ELSE v.a

\* C4 (as stated): the result is the normalisation of the bracketed value
\* whenever the bracketed key is present, otherwise of the unbracketed value;
\* absent gives the empty sequence, a scalar a one-element sequence, a list
\* the same list.
C4_Original ==
  nz.done =>
    nz.result = IF Present(nz.bracketed) THEN StatedNormal(nz.bracketed)
                ELSE StatedNormal(nz.unbracketed)

\* C4 (amended): the result is the normalisation of the bracketed value
\* whenever the bracketed key is present and not the empty string, otherwise
\* of the unbracketed value; absent and the empty string give the empty
\* sequence, a non-empty scalar a one-element sequence, a list the same list
\* in the same order.
C4_Amended ==
  nz.done =>
    nz.result = IF Present(nz.bracketed) /\ nz.bracketed # Str("")
                  THEN AmendedNormal(nz.bracketed)
                  ELSE AmendedNormal(nz.unbracketed)

C4_Witness ==
  /\ nz.done
  /\ nz.bracketed = Arr(<<"b", "a">>)
  /\ nz.unbracketed = Str("a")
  /\ nz.result = <<"b", "a">>

(***************************************************************************)
(* Properties of the storage names, under SpecFiles.                       *)
(***************************************************************************)
\* C8: any two stored files, of one request or of two, have different
\* storage names, so every stored file has a path of its own.
C8_Original ==
  /\ \A i, j \in 1..Len(fileLog) :
       i # j => fileLog[i].filename # fileLog[j].filename
  /\ Cardinality(DOMAIN uploads) = Len(fileLog)

====
